---- MODULE Spec2Model ----
(***************************************************************************)
(* Model of the uniquification engine of creometrics:                      *)
(*   workers/uniquification/photo_uniquifier.py  (PhotoUniquifier)         *)
(*   workers/uniquification/methods.py           (METHOD_REGISTRY)         *)
(*                                                                         *)
(* Numbers.  A Python int or float is a record [t, v]: t is the Python     *)
(* type ("int" or "float") and v the value in thousandths, so the int 5 is *)
(* [t |-> "int", v |-> 5000] and the float 0.3 is [t |-> "float",          *)
(* v |-> 300].  Arithmetic on them is exact decimal arithmetic.            *)
(*                                                                         *)
(* Parameter values.  A value of a method config is [k, a, b]: k = "r" is  *)
(* a two-element list [a, b], k = "s" is a scalar (a = b).                 *)
(*                                                                         *)
(* Images.  An image is the sequence of operations that were applied to    *)
(* the decoded original; each operation records the effect's name, the     *)
(* values it drew from the `random` module and the state of numpy's own    *)
(* generator it consumed.                                                  *)
(***************************************************************************)
EXTENDS Integers, Sequences, FiniteSets, TLC

(* ------------------------------ bounds --------------------------------- *)
\* longest methods list of a preset
MaxMethods == 2
\* largest number of copies a call is asked for
MaxCount == 5
\* largest number of copies asked for together with the long methods lists
ShortCount == 2
\* largest number of copies in the runs that compare two calls
MaxPairCount == 2
\* outcomes of numpy's unseeded global generator that are told apart
NpStates == 2
\* worker processes, each with its own string-hash secret
NumProcs == 2
\* width and height of the input image in pixels
ImgW == 4
ImgH == 3

(* --------------------------- number helpers ---------------------------- *)
\* Python's int(x) for x = n/d: truncation toward zero
Trunc(n, d) == IF n >= 0 THEN n \div d ELSE -((-n) \div d)

I(n) == [t |-> "int", v |-> n * 1000]
F(m) == [t |-> "float", v |-> m]
Range(x, y) == [k |-> "r", a |-> x, b |-> y]
Scalar(x) == [k |-> "s", a |-> x, b |-> x]
Param(key, val) == [key |-> key, val |-> val]
Method(name, enabled, params) == [name |-> name, enabled |-> enabled, params |-> params]

(* ------------------------- intensity multiplier ------------------------ *)
\* multipliers.get(self.intensity, 1.5), in tenths
Multiplier(intensity) ==
    CASE intensity = "low" -> 5
      [] intensity = "medium" -> 10
      [] intensity = "high" -> 13
      [] OTHER -> 15

no_scale_methods == {"brightness", "contrast", "hue", "blur"}

\* type(value)(value * multiplier): the product converted back to value's type
ScaleNum(x, m) ==
    [t |-> x.t,
     v |-> IF x.t = "int" THEN Trunc(x.v * m, 10000) * 1000 ELSE Trunc(x.v * m, 10)]

ScaleVal(val, m) == [k |-> val.k, a |-> ScaleNum(val.a, m), b |-> ScaleNum(val.b, m)]

ScaleMethod(method, m) ==
    [name |-> method.name,
     enabled |-> method.enabled,
     params |-> [p \in 1..Len(method.params) |->
                    Param(method.params[p].key, ScaleVal(method.params[p].val, m))]]

ApplyIntensityMultiplier(methods, intensity) ==
    [idx \in 1..Len(methods) |->
        IF methods[idx].name \in no_scale_methods
        THEN methods[idx]
        ELSE ScaleMethod(methods[idx], Multiplier(intensity))]

(* ------------------------ the `random` module -------------------------- *)
\* The generator is [seed, n]: the seed it was last seeded with and the
\* number of values drawn since.  Rand is the n-th raw value of that stream.
RandMod == 16
Rand(rng, k) == ((rng.seed + 3) * 7 + (rng.n + k) * 5 + rng.seed * (rng.n + k)) % RandMod
Advance(rng, k) == [seed |-> rng.seed, n |-> rng.n + k]

\* random.randint(a, b) on plain integers; the caller checks a <= b
RandInt(rng, k, a, b) == a + (Rand(rng, k) % (b - a + 1))
\* random.uniform(a, b) on thousandths: a + (b - a) * random()
RandUniform(rng, k, a, b) == a + Trunc((b - a) * Rand(rng, k), RandMod)

\* hash(str) is salted with a secret chosen when the interpreter starts
HashMod == 8
NameCode(name) == IF name = "photo.jpg" THEN 1 ELSE 2
Hash(salt, name) == (NameCode(name) * (2 * salt + 3) + 5 * salt) % HashMod

(* ------------------------- _prepare_parameters ------------------------- *)
IsIntRange(val) == val.a.t = "int" /\ val.b.t = "int"

\* one key of the loop: the sampled value, or a raise of random.randint
PrepareRaises(val) == val.k = "r" /\ IsIntRange(val) /\ val.a.v > val.b.v

\* variant: every range is drawn with random.uniform
PrepareOne_AlwaysUniform(val, rng) ==
    IF val.k = "r"
    THEN Scalar(F(RandUniform(rng, 0, val.a.v, val.b.v)))
    ELSE val

\* the body of the loop over the config's keys
PrepareOne(val, rng) ==
    IF val.k = "r"
    THEN IF IsIntRange(val)
         THEN Scalar(I(RandInt(rng, 0, val.a.v \div 1000, val.b.v \div 1000)))
         ELSE Scalar(F(RandUniform(rng, 0, val.a.v, val.b.v)))
    ELSE val

RECURSIVE PrepareFrom(_, _, _, _)
PrepareFrom(ps, idx, rng, acc) ==
    IF idx > Len(ps)
    THEN [raised |-> FALSE, params |-> acc, rng |-> rng]
    ELSE IF PrepareRaises(ps[idx].val)
         THEN [raised |-> TRUE, params |-> acc, rng |-> rng]
         ELSE PrepareFrom(ps, idx + 1,
                          IF ps[idx].val.k = "r" THEN Advance(rng, 1) ELSE rng,
                          Append(acc, Param(ps[idx].key, PrepareOne(ps[idx].val, rng))))

PrepareParameters(method_config, rng) == PrepareFrom(method_config.params, 1, rng, <<>>)

(* ------------------------- METHOD_REGISTRY ----------------------------- *)
RegistryNames ==
    {"noise", "sparkles", "lens_flare", "rotate", "brightness", "contrast", "hue", "blur"}

\* keyword parameters each registry function accepts
RegistryKeys(name) ==
    CASE name = "noise" -> {"intensity"}
      [] name = "sparkles" -> {"count", "size", "colors"}
      [] name = "lens_flare" -> {"intensity", "position"}
      [] name = "rotate" -> {"angle"}
      [] name = "brightness" -> {"factor"}
      [] name = "contrast" -> {"factor"}
      [] name = "hue" -> {"shift"}
      [] name = "blur" -> {"radius"}
      [] OTHER -> {}

HasKey(params, key) == \E p \in 1..Len(params) : params[p].key = key
Arg(params, key, default) ==
    IF HasKey(params, key)
    THEN params[CHOOSE p \in 1..Len(params) : params[p].key = key].val
    ELSE default

\* `*value` and `a, b = value` need a two-element sequence
Unpackable(val) == val.k = "r"
\* random.randint(*value) also needs integer endpoints in ascending order
IntDrawable(val) == Unpackable(val) /\ IsIntRange(val) /\ val.a.v <= val.b.v

Raised(rng) == [raised |-> TRUE, op |-> [name |-> "none", draws |-> <<>>, np |-> 0], rng |-> rng]
Applied(name, draws, np, rng) ==
    [raised |-> FALSE, op |-> [name |-> name, draws |-> draws, np |-> np], rng |-> rng]

Lo(val) == val.a.v \div 1000
Hi(val) == val.b.v \div 1000

add_noise(params, rng, nz) ==
    LET intensity == Arg(params, "intensity", Range(I(5), I(15)))
    IN  IF ~IntDrawable(intensity)
        THEN Raised(rng)
        ELSE Applied("noise", <<RandInt(rng, 0, Lo(intensity), Hi(intensity))>>, nz,
                     Advance(rng, 1))

add_sparkles(params, rng, nz) ==
    LET count == Arg(params, "count", Range(I(10), I(30)))
        size == Arg(params, "size", Range(I(2), I(5)))
    IN  IF ~IntDrawable(count)
        THEN Raised(rng)
        ELSE LET sparkle_count == RandInt(rng, 0, Lo(count), Hi(count))
             IN  IF sparkle_count <= 0
                 THEN Applied("sparkles", <<sparkle_count>>, 0, Advance(rng, 1))
                 ELSE IF ~IntDrawable(size)
                      THEN Raised(Advance(rng, 3))
                      ELSE IF HasKey(params, "colors")
                           THEN Raised(Advance(rng, 4))
                           ELSE Applied("sparkles",
                                        <<sparkle_count,
                                          RandInt(rng, 1, 0, ImgW - 1),
                                          RandInt(rng, 2, 0, ImgH - 1),
                                          RandInt(rng, 3, Lo(size), Hi(size)),
                                          RandInt(rng, 4, 0, 2)>>,
                                        0, Advance(rng, 1 + 4 * sparkle_count))

add_lens_flare(params, rng, nz) ==
    LET intensity == Arg(params, "intensity", Range(F(300), F(700)))
    IN  IF HasKey(params, "position")
        THEN Raised(rng)
        ELSE IF ~Unpackable(intensity)
             THEN Raised(Advance(rng, 4))
             ELSE Applied("lens_flare",
                          <<RandInt(rng, 0, 0, 2),
                            RandInt(rng, 1, 0, 2),
                            RandInt(rng, 2, (-ImgW) \div 10, ImgW \div 10),
                            RandInt(rng, 3, (-ImgH) \div 10, ImgH \div 10),
                            RandUniform(rng, 4, intensity.a.v, intensity.b.v)>>,
                          0, Advance(rng, 5))

\* rotate, brightness, contrast and blur: one random.uniform(*value)
UniformEffect(name, key, default, params, rng) ==
    LET val == Arg(params, key, default)
    IN  IF ~Unpackable(val)
        THEN Raised(rng)
        ELSE Applied(name, <<RandUniform(rng, 0, val.a.v, val.b.v)>>, 0, Advance(rng, 1))

rotate_image(params, rng, nz) == UniformEffect("rotate", "angle", Range(I(-3), I(3)), params, rng)
adjust_brightness(params, rng, nz) ==
    UniformEffect("brightness", "factor", Range(F(950), F(1050)), params, rng)
adjust_contrast(params, rng, nz) ==
    UniformEffect("contrast", "factor", Range(F(950), F(1050)), params, rng)
apply_blur(params, rng, nz) == UniformEffect("blur", "radius", Range(F(500), F(2000)), params, rng)

adjust_hue(params, rng, nz) ==
    LET shift == Arg(params, "shift", Range(I(-5), I(5)))
    IN  IF ~IntDrawable(shift)
        THEN Raised(rng)
        ELSE Applied("hue", <<RandInt(rng, 0, Lo(shift), Hi(shift))>>, 0, Advance(rng, 1))

\* method_func(image, **params): an unexpected keyword raises before the body runs
CallMethod(name, params, rng, nz) ==
    IF \E p \in 1..Len(params) : params[p].key \notin RegistryKeys(name)
    THEN Raised(rng)
    ELSE CASE name = "noise" -> add_noise(params, rng, nz)
           [] name = "sparkles" -> add_sparkles(params, rng, nz)
           [] name = "lens_flare" -> add_lens_flare(params, rng, nz)
           [] name = "rotate" -> rotate_image(params, rng, nz)
           [] name = "brightness" -> adjust_brightness(params, rng, nz)
           [] name = "contrast" -> adjust_contrast(params, rng, nz)
           [] name = "hue" -> adjust_hue(params, rng, nz)
           [] OTHER -> apply_blur(params, rng, nz)

(* ------------------------------ inputs --------------------------------- *)
\* method configs a preset is built from
NoiseRange == Method("noise", TRUE, <<Param("intensity", Range(I(5), I(15)))>>)
NoiseDefault == Method("noise", TRUE, <<>>)
BlurDefault == Method("blur", TRUE, <<>>)
HueOff == Method("hue", FALSE, <<Param("shift", Range(I(-3), I(3)))>>)
Glow == Method("glow", TRUE, <<Param("count", Range(I(6), I(20)))>>)
NoiseBackwards == Method("noise", TRUE, <<Param("intensity", Range(I(15), I(5)))>>)

SparklesDefault == Method("sparkles", TRUE, <<>>)

MethodPool == {NoiseRange, BlurDefault, SparklesDefault, HueOff, Glow, NoiseBackwards}

RECURSIVE SeqsUpTo(_, _)
SeqsUpTo(S, n) ==
    IF n = 0 THEN {<<>>}
    ELSE LET shorter == SeqsUpTo(S, n - 1)
         IN  shorter \cup {Append(q, x) : q \in shorter, x \in S}

MethodLists == SeqsUpTo(MethodPool, MaxMethods)
Levels == {"low", "medium", "high"}
Formats == {"jpeg", "png", "webp", "gif"}
Overlays == {"none", "ok", "unloadable"}
HashSecrets == 0..(NumProcs - 1)

\* The requests uniquify is run with, as [preset, count]:
\*   every methods list, level and flip, for a few copies;
\*   the lists of at most one method with every format, for every number of copies;
\*   every overlay combination on the lists of at most one method.
PipelineRequests ==
    [preset : [methods : MethodLists, intensity : Levels, file_format : {"jpeg"},
               flip_horizontal : BOOLEAN, overlay_text : {FALSE}, overlay_photo : {"none"}],
     count : 1..ShortCount]

LoopRequests ==
    [preset : [methods : SeqsUpTo(MethodPool, 1), intensity : Levels, file_format : Formats,
               flip_horizontal : {FALSE}, overlay_text : {FALSE}, overlay_photo : {"none"}],
     count : 1..MaxCount]

OverlayRequests ==
    [preset : [methods : SeqsUpTo(MethodPool, 1), intensity : {"medium"},
               file_format : {"jpeg"}, flip_horizontal : BOOLEAN,
               overlay_text : BOOLEAN, overlay_photo : Overlays],
     count : 1..ShortCount]

Requests == PipelineRequests \cup LoopRequests \cup OverlayRequests

\* the requests that are issued twice: these include the noise effect called
\* with its defaults, whose pixel noise comes from numpy's generator
PairRequests ==
    [preset : [methods : SeqsUpTo(MethodPool \cup {NoiseDefault}, 1), intensity : {"medium"},
               file_format : {"jpeg"}, flip_horizontal : {FALSE},
               overlay_text : {FALSE}, overlay_photo : {"none"}],
     count : 1..MaxPairCount]

Inputs == [name : {"photo.jpg"}, stem : {"photo"}, decodable : BOOLEAN]

(* ------------------------------- state --------------------------------- *)
VARIABLES
    preset,        \* preset_config handed to PhotoUniquifier
    input,         \* the input file: its name and whether it decodes
    count,         \* number of copies asked for
    hashSecret,    \* string-hash secret of the process running the call
    call,          \* 1 for the first uniquify call, 2 for the repeated one
    pc,            \* position in __init__ / uniquify
    methods,       \* self.methods
    i,             \* loop variable of `for i in range(count)`
    j,             \* position in self.methods of the inner loop
    image,         \* the copy's image
    rng,           \* state of the process-wide `random` generator
    output_paths,  \* list being returned
    files,         \* files this call wrote: records [path, enc, image]
    raisedBy,      \* statement whose exception left uniquify
    attempts,      \* history: indices whose loop body was entered
    failed,        \* history: indices whose body ended in the outer except
    saveErrors,    \* history: indices whose image.save raised an I/O error
    invoked,       \* history: positions of the methods called for this copy
    errored,       \* history: positions of the methods that raised for this copy
    seeds,         \* history: [name, i, seed] of every random.seed call
    first,         \* outcome of the first call, kept while the second runs
    sampled,       \* per intensity level: self.methods and what _prepare_parameters returned
    transform_params,  \* VideoUniquifier: the copy's transform_params
    disk,          \* VideoUniquifier: files in output_dir, records [path, kind, complete]
    drawn,         \* VideoUniquifier history: what _prepare_transform_params returned, per copy
    frame,         \* VideoUniquifier: number of frames of the copy written so far
    frames,        \* VideoUniquifier history: the ops applied to and the gate draws made for each frame of the copy
    stages,        \* VideoUniquifier: the stages chained onto the clip, first applied first
    npDraws,       \* calls of np.random made so far in this process
    canvas,        \* _apply_photo_overlay: base pixels, overlay pixels, opacity and the result
    task,          \* a Celery task invocation: its arguments, position and local variables
    db,            \* the action_logs row of the request
    inv,           \* two concurrent task invocations: kind, action log id, position
    touched        \* history: [by, path, op] of every file written or deleted by them

vars == <<preset, input, count, hashSecret, call, pc, methods, i, j, image, rng,
          output_paths, files, raisedBy, attempts, failed, saveErrors, invoked, errored,
          seeds, first, sampled, transform_params, disk, drawn,
          frame, frames, stages, npDraws, canvas, task, db, inv, touched>>

photoVars == <<hashSecret, j, image, files, saveErrors, invoked, errored, seeds, npDraws>>
videoVars == <<transform_params, disk, drawn, frame, frames, stages>>
sideVars == <<canvas, task, db, inv, touched>>

NoImage == <<>>
NoRng == [seed |-> 0, n |-> 0]
NoFirst == [output_paths |-> <<>>, files |-> {}, drawn |-> <<>>, done |-> FALSE]
NoSample == [done |-> FALSE, methods |-> <<>>,
             result |-> [raised |-> FALSE, params |-> <<>>, rng |-> NoRng]]
NoParams == [name \in {} |-> <<>>]

\* nothing but the uniquifier at hand is running
NoSide ==
    /\ canvas = [done |-> FALSE]
    /\ task = [pc |-> "none"]
    /\ db = [status |-> "none"]
    /\ inv = <<>>
    /\ touched = {}

InitWith(requests) ==
    /\ \E request \in requests : preset = request.preset /\ count = request.count
    /\ input \in Inputs
    /\ hashSecret = 0
    /\ call = 1
    /\ pc = "new"
    /\ methods = <<>>
    /\ i = 0
    /\ j = 0
    /\ image = NoImage
    /\ rng = NoRng
    /\ output_paths = <<>>
    /\ files = {}
    /\ raisedBy = "none"
    /\ attempts = <<>>
    /\ failed = {}
    /\ saveErrors = {}
    /\ invoked = <<>>
    /\ errored = {}
    /\ seeds = {}
    /\ first = NoFirst
    /\ sampled = [level \in Levels |-> NoSample]
    /\ transform_params = NoParams
    /\ disk = {}
    /\ drawn = <<>>
    /\ frame = 0
    /\ frames = <<>>
    /\ stages = <<>>
    /\ npDraws = 0
    /\ NoSide

Init == InitWith(Requests)

(* ------------------------ PhotoUniquifier.__init__ --------------------- *)
Construct ==
    /\ UNCHANGED <<sampled, videoVars, sideVars, npDraws>>
    /\ pc = "new"
    /\ methods' = ApplyIntensityMultiplier(preset.methods, preset.intensity)
    /\ pc' = "ready"
    /\ UNCHANGED <<preset, input, count, hashSecret, call, i, j, image, rng, output_paths,
                   files, raisedBy, attempts, failed, saveErrors, invoked, errored, seeds,
                   first>>

(* ------------------------ PhotoUniquifier.uniquify --------------------- *)
\* Image.open(...).convert('RGB'), then output_dir.mkdir(...): both outside the loop's try
Load ==
    /\ UNCHANGED <<sampled, videoVars, sideVars, npDraws>>
    /\ pc = "ready"
    /\ \E mkdirOK \in BOOLEAN :
          IF ~input.decodable
          THEN pc' = "raised" /\ raisedBy' = "load"
          ELSE IF ~mkdirOK
               THEN pc' = "raised" /\ raisedBy' = "mkdir"
               ELSE pc' = "loop" /\ raisedBy' = raisedBy
    /\ i' = 0
    /\ output_paths' = <<>>
    /\ UNCHANGED <<preset, input, count, hashSecret, call, methods, j, image, rng, files,
                   attempts, failed, saveErrors, invoked, errored, seeds, first>>

\* random.seed(i + hash(input_path.name))
SeedFor(secret, name, idx) == idx + Hash(secret, name)

FlipOp == [name |-> "flip", draws |-> <<>>, np |-> 0]
TextOp == [name |-> "text", draws |-> <<>>, np |-> 0]
OverlayOp == [name |-> "overlay", draws |-> <<>>, np |-> 0]

\* variant: the copy is mirrored whatever flip_horizontal says
StartImage_AlwaysMirrors(flip) == <<FlipOp>>

\* original_image.copy(), then ImageOps.mirror when flip_horizontal
StartImage(flip) == IF flip THEN <<FlipOp>> ELSE NoImage

BeginCopy ==
    /\ UNCHANGED <<sampled, videoVars, sideVars, npDraws>>
    /\ pc = "loop"
    /\ i < count
    /\ rng' = [seed |-> SeedFor(hashSecret, input.name, i), n |-> 0]
    /\ seeds' = seeds \cup {[name |-> input.name, i |-> i,
                             seed |-> SeedFor(hashSecret, input.name, i)]}
    /\ image' = StartImage(preset.flip_horizontal)
    /\ j' = 1
    /\ attempts' = Append(attempts, i)
    /\ invoked' = <<>>
    /\ errored' = {}
    /\ pc' = "methods"
    /\ UNCHANGED <<preset, input, count, hashSecret, call, methods, i, output_paths, files,
                   raisedBy, failed, saveErrors, first>>

\* variant: the name is looked up without the membership test
InRegistry_Any(method_name) == TRUE

\* `if method_name not in METHOD_REGISTRY`
InRegistry(method_name) == method_name \in RegistryNames

\* variant: the enabled flag is not consulted
ShouldCall_IgnoresEnabled(method_config) == method_config.name \in RegistryNames

\* the two `continue`s of the inner loop
ShouldCall(method_config) == method_config.enabled /\ InRegistry(method_config.name)

\* variant: no inner try, the exception reaches the copy's handler
MethodOutcome_Propagates(img, result) ==
    [image |-> IF result.raised THEN img ELSE Append(img, result.op),
     propagates |-> result.raised]

\* try: image = method_func(image, **params) / except Exception: log and go on.
\* The image the loop continues with, and whether the exception leaves the loop.
MethodOutcome(img, result) ==
    [image |-> IF result.raised THEN img ELSE Append(img, result.op),
     propagates |-> FALSE]

\* variant: the handler sits outside the for loop, so the first failure ends it
CopyFails_EndsLoop ==
    /\ failed' = failed \cup {i}
    /\ i' = count
    /\ pc' = "loop"

\* the outer except: log, then the for loop moves on
CopyFails ==
    /\ failed' = failed \cup {i}
    /\ i' = i + 1
    /\ pc' = "loop"

\* one iteration of `for method_config in self.methods`
StepMethod ==
    /\ UNCHANGED <<sampled, videoVars, sideVars>>
    /\ pc = "methods"
    /\ j <= Len(methods)
    /\ IF ~ShouldCall(methods[j])
       THEN /\ j' = j + 1
            /\ UNCHANGED <<image, rng, invoked, errored, failed, i, pc, npDraws>>
       ELSE LET prepared == PrepareParameters(methods[j], rng)
            IN  IF prepared.raised
                THEN /\ CopyFails
                     /\ rng' = prepared.rng
                     /\ UNCHANGED <<image, j, invoked, errored, npDraws>>
                ELSE \E nz \in 1..NpStates :
                        LET result == CallMethod(methods[j].name, prepared.params,
                                                 prepared.rng, nz)
                            outcome == MethodOutcome(image, result)
                        IN  /\ image' = outcome.image
                            /\ rng' = result.rng
                            /\ npDraws' = IF ~result.raised /\ result.op.np # 0
                                           THEN npDraws + 1 ELSE npDraws
                            /\ invoked' = Append(invoked, j)
                            /\ errored' = IF result.raised THEN errored \cup {j} ELSE errored
                            /\ IF outcome.propagates
                               THEN CopyFails /\ j' = j
                               ELSE j' = j + 1 /\ UNCHANGED <<failed, i, pc>>
    /\ UNCHANGED <<preset, input, count, hashSecret, call, methods, output_paths, files,
                   raisedBy, attempts, saveErrors, seeds, first>>

\* variant: the text is laid under what the image already carries
ApplyTextOverlay_Underneath(img, text) == IF text THEN <<TextOp>> \o img ELSE img

\* _apply_text_overlay
ApplyTextOverlay(img, text) == IF text THEN Append(img, TextOp) ELSE img

\* _apply_photo_overlay: a load error is caught inside and the base image returned
ApplyPhotoOverlay(img, overlay) == IF overlay = "ok" THEN Append(img, OverlayOp) ELSE img

\* ext_map.get(self.file_format, '.jpg')
ExtFor(file_format) ==
    CASE file_format = "jpeg" -> ".jpg"
      [] file_format = "png" -> ".png"
      [] file_format = "webp" -> ".webp"
      [] OTHER -> ".jpg"

\* the if / elif chain around image.save
EncoderFor(file_format) ==
    CASE file_format = "jpeg" -> "JPEG"
      [] file_format = "png" -> "PNG"
      [] file_format = "webp" -> "WEBP"
      [] OTHER -> "none"

\* variant: the loop variable is used without the + 1
OutputPath_ZeroBased(stem, idx, ext) ==
    [dir |-> "output_dir", stem |-> stem, index |-> idx, ext |-> ext]

\* output_dir / f"{input_path.stem}_unique_{i+1}{ext}"
OutputPath(stem, idx, ext) == [dir |-> "output_dir", stem |-> stem, index |-> idx + 1, ext |-> ext]

\* overlays, extension, save and append, once the inner loop is through
FinishCopy ==
    /\ UNCHANGED <<sampled, videoVars, sideVars, npDraws>>
    /\ pc = "methods"
    /\ j > Len(methods)
    /\ LET final == ApplyPhotoOverlay(ApplyTextOverlay(image, preset.overlay_text),
                                      preset.overlay_photo)
           output_path == OutputPath(input.stem, i, ExtFor(preset.file_format))
           enc == EncoderFor(preset.file_format)
       IN  \E saveOK \in BOOLEAN :
              IF enc # "none" /\ ~saveOK
              THEN /\ CopyFails
                   /\ saveErrors' = saveErrors \cup {i}
                   /\ UNCHANGED <<image, output_paths, files>>
              ELSE /\ image' = final
                   /\ files' = IF enc = "none" THEN files
                               ELSE {f \in files : f.path # output_path}
                                    \cup {[path |-> output_path, enc |-> enc, image |-> final]}
                   /\ output_paths' = Append(output_paths, output_path)
                   /\ i' = i + 1
                   /\ pc' = "loop"
                   /\ UNCHANGED <<failed, saveErrors>>
    /\ UNCHANGED <<preset, input, count, hashSecret, call, methods, j, rng, raisedBy,
                   attempts, invoked, errored, seeds, first>>

\* return output_paths
Return ==
    /\ UNCHANGED <<sampled, videoVars, sideVars, npDraws>>
    /\ pc = "loop"
    /\ i >= count
    /\ pc' = "done"
    /\ UNCHANGED <<preset, input, count, hashSecret, call, methods, i, j, image, rng,
                   output_paths, files, raisedBy, attempts, failed, saveErrors, invoked,
                   errored, seeds, first>>

\* The same request again: a new PhotoUniquifier on the same config and the
\* same input, in the same worker process or in another one.
SecondCall ==
    /\ UNCHANGED <<sampled, videoVars, sideVars>>
    /\ pc = "done"
    /\ call = 1
    /\ call' = 2
    /\ first' = [output_paths |-> output_paths, files |-> files, drawn |-> drawn,
                 done |-> TRUE]
    /\ \E newProcess \in BOOLEAN, secret \in HashSecrets :
          /\ hashSecret' = IF newProcess THEN secret ELSE hashSecret
          /\ npDraws' = IF newProcess THEN 0 ELSE npDraws
    /\ pc' = "new"
    /\ methods' = <<>>
    /\ i' = 0
    /\ j' = 0
    /\ image' = NoImage
    /\ output_paths' = <<>>
    /\ files' = {}
    /\ attempts' = <<>>
    /\ failed' = {}
    /\ saveErrors' = {}
    /\ invoked' = <<>>
    /\ errored' = {}
    /\ UNCHANGED <<preset, input, count, rng, raisedBy, seeds>>

Next == Construct \/ Load \/ BeginCopy \/ StepMethod \/ FinishCopy \/ Return

Spec == Init /\ [][Next]_vars

\* two calls on the same input with the same preset and count
InitPair == InitWith(PairRequests)

NextPair == Next \/ SecondCall

SpecPair == InitPair /\ [][NextPair]_vars

(* ------- one method config, scaled and sampled under each intensity ------- *)
\* endpoints of the integer ranges tried: a negative one, and 6 whose products
\* with 0.5 and 1.3 are 3.0 and 7.8
SamplerInts == {-3, 2, 6}

\* parameter values of the sampled config: integer ranges in either order, the
\* default preset's noise range, float and mixed ranges, scalars
SamplerVals ==
    {Range(I(a), I(b)) : a \in SamplerInts, b \in SamplerInts}
        \cup {Range(I(5), I(15)), Range(F(300), F(600)), Range(F(600), F(300)),
              Range(I(1), F(2500)), Scalar(I(6)), Scalar(F(500))}

\* a scaled effect and a protected one, with one parameter or with three
SamplerConfigs ==
    {Method(name, TRUE, <<Param("intensity", v)>>) :
        name \in {"noise", "blur"}, v \in SamplerVals}
    \cup {Method(name, TRUE, <<Param("intensity", v), Param("size", w),
                             Param("count", Scalar(I(4)))>>) :
            name \in {"noise", "blur"}, v \in SamplerVals,
            w \in {Scalar(I(6)), Range(F(300), F(600))}}

\* arguments of random.seed
SamplerSeeds == 0..(RandMod - 1)

InitSampler ==
    /\ \E cfg \in SamplerConfigs :
          preset = [methods |-> <<cfg>>, intensity |-> "medium", file_format |-> "jpeg",
                    flip_horizontal |-> FALSE, overlay_text |-> FALSE,
                    overlay_photo |-> "none"]
    /\ \E s \in SamplerSeeds : rng = [seed |-> s, n |-> 0]
    /\ input \in {x \in Inputs : x.decodable}
    /\ count = 1
    /\ hashSecret = 0
    /\ call = 1
    /\ pc = "new"
    /\ methods = <<>>
    /\ i = 0
    /\ j = 0
    /\ image = NoImage
    /\ output_paths = <<>>
    /\ files = {}
    /\ raisedBy = "none"
    /\ attempts = <<>>
    /\ failed = {}
    /\ saveErrors = {}
    /\ invoked = <<>>
    /\ errored = {}
    /\ seeds = {}
    /\ first = NoFirst
    /\ sampled = [level \in Levels |-> NoSample]
    /\ transform_params = NoParams
    /\ disk = {}
    /\ drawn = <<>>
    /\ frame = 0
    /\ frames = <<>>
    /\ stages = <<>>
    /\ npDraws = 0
    /\ NoSide

\* PhotoUniquifier({..., 'intensity': level}); random.seed(seed);
\* self._prepare_parameters(self.methods[0])
SampleUnder(level) ==
    /\ pc = "new"
    /\ ~sampled[level].done
    /\ LET scaled == ApplyIntensityMultiplier(preset.methods, level)
       IN  sampled' = [sampled EXCEPT ![level] =
                          [done |-> TRUE, methods |-> scaled,
                           result |-> PrepareParameters(scaled[1], rng)]]
    /\ UNCHANGED <<preset, input, count, call, pc, methods, i, rng, output_paths, raisedBy,
                   attempts, failed, first, photoVars, videoVars, sideVars>>

NextSampler == \E level \in Levels : SampleUnder(level)

SpecSampler == InitSampler /\ [][NextSampler]_vars

(* --------------------------- VideoUniquifier --------------------------- *)
\* frames written per clip
NumFrames == 2
\* largest count of a video request
MaxVideoCount == 2

SpeedRange == Method("speed", TRUE, <<Param("factor", Range(F(980), F(1020)))>>)
VideoNoise == Method("noise", TRUE, <<Param("intensity", Range(I(3), I(8)))>>)
VideoSparkles ==
    Method("sparkles", TRUE, <<Param("count", Range(I(3), I(10))), Param("size", Range(I(1), I(3)))>>)

\* method configs of a video preset: the default preset's speed, noise, sparkles
\* and hue entries, and a noise entry whose range is backwards
HueShift == Method("hue", TRUE, <<Param("shift", Range(I(-3), I(3)))>>)
BrightnessRange == Method("brightness", TRUE, <<Param("factor", Range(F(980), F(1020)))>>)
VideoPool ==
    {SpeedRange, VideoNoise, VideoSparkles, HueOff, NoiseBackwards, HueShift, BrightnessRange}

VideoRequests ==
    [preset : [methods : SeqsUpTo(VideoPool, MaxMethods), intensity : {"medium"},
               file_format : {"jpeg"}, flip_horizontal : {FALSE},
               overlay_text : {FALSE}, overlay_photo : {"none"}],
     count : 1..MaxVideoCount]

\* the input clip (with an audio track): its name and whether it decodes
VideoInputs == [name : {"clip.mp4"}, stem : {"clip"}, decodable : BOOLEAN]

\* the `random` generator of a worker process, seeded from OS entropy at import
ProcessRandom(secret) == [seed |-> secret, n |-> 0]

\* the requests made twice: at most one method config
VideoPairRequests ==
    [preset : [methods : SeqsUpTo(VideoPool, 1), intensity : {"medium"},
               file_format : {"jpeg"}, flip_horizontal : {FALSE},
               overlay_text : {FALSE}, overlay_photo : {"none"}],
     count : 1..MaxPairCount]

InitVideoFrom(requests, secrets) ==
    /\ \E request \in requests : preset = request.preset /\ count = request.count
    /\ input \in VideoInputs
    /\ hashSecret \in secrets
    /\ rng = ProcessRandom(hashSecret)
    /\ call = 1
    /\ pc = "new"
    /\ methods = <<>>
    /\ i = 0
    /\ j = 0
    /\ image = NoImage
    /\ output_paths = <<>>
    /\ files = {}
    /\ raisedBy = "none"
    /\ attempts = <<>>
    /\ failed = {}
    /\ saveErrors = {}
    /\ invoked = <<>>
    /\ errored = {}
    /\ seeds = {}
    /\ first = NoFirst
    /\ sampled = [level \in Levels |-> NoSample]
    /\ transform_params = NoParams
    /\ disk = {}
    /\ drawn = <<>>
    /\ frame = 0
    /\ frames = <<>>
    /\ stages = <<>>
    /\ npDraws = 0
    /\ NoSide

InitVideoWith(requests) == InitVideoFrom(requests, HashSecrets)

InitVideo == InitVideoWith(VideoRequests)

VideoLensFlare == Method("lens_flare", TRUE, <<Param("intensity", Range(F(200), F(500)))>>)

\* the requests followed frame by frame: one copy, for presets that declare the
\* clip-level and frame-level methods in several orders
FrameMethodLists ==
    {<<HueShift, SpeedRange>>,
     <<HueShift, BrightnessRange, SpeedRange>>,
     <<VideoNoise, HueShift, SpeedRange>>,
     <<VideoNoise, VideoSparkles>>,
     <<VideoSparkles, VideoNoise>>,
     <<VideoLensFlare, VideoSparkles, VideoNoise>>,
     <<VideoLensFlare, HueOff>>,
     <<VideoSparkles>>}
\* with every state the process's generator can be in when the request arrives
InitVideoFrames ==
    InitVideoFrom([preset : [methods : FrameMethodLists, intensity : {"medium"},
                             file_format : {"jpeg"}, flip_horizontal : {FALSE},
                             overlay_text : {FALSE}, overlay_photo : {"none"}],
                   count : {1}],
                  SamplerSeeds)

\* VideoUniquifier.__init__: the methods are taken as they are
VConstruct ==
    /\ pc = "new"
    /\ methods' = preset.methods
    /\ pc' = "ready"
    /\ UNCHANGED <<preset, input, count, call, i, rng, output_paths, raisedBy, attempts,
                   failed, first, sampled, photoVars, videoVars, sideVars>>

\* output_paths = []; output_dir.mkdir(parents=True, exist_ok=True)
VStart ==
    /\ pc = "ready"
    /\ \E mkdirOK \in BOOLEAN :
          IF mkdirOK
          THEN pc' = "loop" /\ raisedBy' = raisedBy
          ELSE pc' = "raised" /\ raisedBy' = "mkdir"
    /\ i' = 0
    /\ output_paths' = <<>>
    /\ UNCHANGED <<preset, input, count, call, methods, rng, attempts, failed, first,
                   sampled, photoVars, videoVars, sideVars>>

\* params[method_name] = method_params
Put(params, method_name, method_params) ==
    [name \in DOMAIN params \cup {method_name} |->
        IF name = method_name THEN method_params ELSE params[name]]

\* _prepare_transform_params: the enabled methods in order, each sampled as in
\* _prepare_parameters
RECURSIVE PrepareTransformFrom(_, _, _, _)
PrepareTransformFrom(ms, idx, rnd, acc) ==
    IF idx > Len(ms)
    THEN [raised |-> FALSE, params |-> acc, rng |-> rnd]
    ELSE IF ~ms[idx].enabled
         THEN PrepareTransformFrom(ms, idx + 1, rnd, acc)
         ELSE LET prepared == PrepareParameters(ms[idx], rnd)
              IN  IF prepared.raised
                  THEN [raised |-> TRUE, params |-> acc, rng |-> prepared.rng]
                  ELSE PrepareTransformFrom(ms, idx + 1, prepared.rng,
                                            Put(acc, ms[idx].name, prepared.params))

PrepareTransformParams(ms, rnd) == PrepareTransformFrom(ms, 1, rnd, NoParams)

\* output_dir / f"{input_path.stem}_unique_{i+1}{input_path.suffix}"
VideoOutputPath(stem, idx) == [dir |-> "output_dir", stem |-> stem, index |-> idx + 1, ext |-> ".mp4"]

\* output_path.parent / f'temp_audio_{output_path.stem}.m4a'
TempAudioPath(output_path) ==
    [dir |-> output_path.dir, prefix |-> "temp_audio_", stem |-> output_path.stem,
     index |-> output_path.index, ext |-> ".m4a"]

\* the loop body up to the call of _process_video; no random.seed precedes the sampling
VBeginCopy ==
    /\ pc = "loop"
    /\ i < count
    /\ attempts' = Append(attempts, i)
    /\ frame' = 0
    /\ frames' = <<>>
    /\ stages' = <<>>
    /\ LET prepared == PrepareTransformParams(methods, rng)
       IN  /\ rng' = prepared.rng
           /\ IF prepared.raised
              THEN /\ CopyFails
                   /\ UNCHANGED <<transform_params, drawn>>
              ELSE /\ transform_params' = prepared.params
                   /\ drawn' = Append(drawn, [i |-> i, params |-> prepared.params])
                   /\ pc' = "open"
                   /\ UNCHANGED <<failed, i>>
    /\ UNCHANGED <<preset, input, count, call, methods, output_paths, raisedBy, first,
                   sampled, photoVars, sideVars, disk>>

\* the key _process_video reads from each clip-level entry
ClipKey(name) == IF name = "hue" THEN "shift" ELSE "factor"
\* variant: the hue shift is put on the clip before everything else
ClipLevel_HueFirst == <<"hue", "speed", "brightness", "contrast", "saturation">>

ClipLevel == <<"speed", "brightness", "contrast", "saturation", "hue">>
FrameLevel == {"noise", "sparkles", "lens_flare"}

\* transform_params[name][key] raises KeyError when the entry lacks the key
ClipStageRaises(tp) ==
    \E s \in 1..Len(ClipLevel) :
       ClipLevel[s] \in DOMAIN tp /\ ~HasKey(tp[ClipLevel[s]], ClipKey(ClipLevel[s]))

RECURSIVE ClipStagesFrom(_, _)
\* the clip-level stages from position s on, up to the first that raises
ClipStagesFrom(tp, s) ==
    IF s > Len(ClipLevel) THEN <<>>
    ELSE IF ClipLevel[s] \notin DOMAIN tp THEN ClipStagesFrom(tp, s + 1)
    ELSE IF ~HasKey(tp[ClipLevel[s]], ClipKey(ClipLevel[s])) THEN <<>>
    ELSE <<ClipLevel[s]>> \o ClipStagesFrom(tp, s + 1)

\* the transformations put on the clip, in the order they are put on it; the
\* frame-level callback is "frame_effects"
ClipStages(tp) ==
    ClipStagesFrom(tp, 1) \o
    (IF ~ClipStageRaises(tp) /\ DOMAIN tp \cap FrameLevel # {} THEN <<"frame_effects">> ELSE <<>>)

\* VideoFileClip(str(input_path)) and the clip-level stages, inside the copy's try
VOpen ==
    /\ pc = "open"
    /\ IF ~input.decodable \/ ClipStageRaises(transform_params)
       THEN CopyFails
       ELSE pc' = "audio" /\ UNCHANGED <<failed, i>>
    /\ stages' = IF input.decodable THEN ClipStages(transform_params) ELSE <<>>
    /\ UNCHANGED <<preset, input, count, call, methods, rng, output_paths, raisedBy,
                   attempts, first, sampled, photoVars, transform_params, disk, drawn,
                   frame, frames, sideVars>>

File(path, kind, complete) == [path |-> path, kind |-> kind, complete |-> complete]
Without(fs, path) == {f \in fs : f.path # path}

\* write_videofile, first part: the audio track goes to the temp sidecar; when
\* that fails the library has no handler that removes what was written
VWriteAudio ==
    /\ pc = "audio"
    /\ LET temp == TempAudioPath(VideoOutputPath(input.stem, i))
       IN  \E ok \in BOOLEAN, leftover \in BOOLEAN :
              IF ok
              THEN /\ disk' = Without(disk, temp) \cup {File(temp, "temp_audio", TRUE)}
                   /\ pc' = "frames"
                   /\ UNCHANGED <<failed, i>>
              ELSE /\ disk' = IF leftover
                              THEN Without(disk, temp) \cup {File(temp, "temp_audio", FALSE)}
                              ELSE disk
                   /\ CopyFails
    /\ UNCHANGED <<preset, input, count, call, methods, rng, output_paths, raisedBy,
                   attempts, first, sampled, photoVars, sideVars, transform_params, drawn,
                   frame, frames, stages>>

\* x + d for a sampled number x
PlusNum(x, d) == [t |-> IF d % 1000 = 0 THEN x.t ELSE "float", v |-> x.v + d]

\* a frame's effects so far: the ops applied, the gate draws made, the generator
NoOps(rnd) == [raised |-> FALSE, ops |-> <<>>, gates |-> <<>>, rng |-> rnd]
Ops(prev, result) ==
    [raised |-> result.raised,
     gates |-> prev.gates,
     ops |-> IF result.raised THEN prev.ops ELSE Append(prev.ops, result.op),
     rng |-> result.rng]

\* variant: the gate lets every frame through
Gate_Always(rnd, percent) == TRUE

\* random.random() < percent / 100
Gate(rnd, percent) == 100 * Rand(rnd, 0) < percent * RandMod

\* the draw of a gate, noted with the effect it decides on
Drew(prev, name) ==
    [prev EXCEPT !.gates = Append(@, [name |-> name, draw |-> Rand(prev.rng, 0)]),
                 !.rng = Advance(prev.rng, 1)]

\* add_noise(img, (v, v + 1)) on every frame
FrameNoise(tp, prev, nz) ==
    IF prev.raised \/ "noise" \notin DOMAIN tp
    THEN prev
    ELSE IF ~HasKey(tp["noise"], "intensity")
         THEN [prev EXCEPT !.raised = TRUE]
         ELSE LET v == Arg(tp["noise"], "intensity", Scalar(I(0))).a
              IN  Ops(prev, add_noise(<<Param("intensity", Range(v, PlusNum(v, 1000)))>>,
                                      prev.rng, nz))

\* add_sparkles(img, count=(c, c + 5), size=(s, s + 1)) when random.random() < 0.3
FrameSparkles(tp, prev, nz) ==
    IF prev.raised \/ "sparkles" \notin DOMAIN tp
    THEN prev
    ELSE IF ~Gate(prev.rng, 30)
         THEN Drew(prev, "sparkles")
         ELSE LET c == Arg(tp["sparkles"], "count", Scalar(I(5))).a
                  s == Arg(tp["sparkles"], "size", Scalar(I(2))).a
              IN  Ops(Drew(prev, "sparkles"),
                      add_sparkles(<<Param("count", Range(c, PlusNum(c, 5000))),
                                     Param("size", Range(s, PlusNum(s, 1000)))>>,
                                   Advance(prev.rng, 1), nz))

\* add_lens_flare(img, (v, v + 0.1)) when random.random() < 0.1
FrameLensFlare(tp, prev, nz) ==
    IF prev.raised \/ "lens_flare" \notin DOMAIN tp
    THEN prev
    ELSE IF ~Gate(prev.rng, 10)
         THEN Drew(prev, "lens_flare")
         ELSE IF ~HasKey(tp["lens_flare"], "intensity")
              THEN [Drew(prev, "lens_flare") EXCEPT !.raised = TRUE]
              ELSE LET v == Arg(tp["lens_flare"], "intensity", Scalar(F(0))).a
                   IN  Ops(Drew(prev, "lens_flare"),
                           add_lens_flare(<<Param("intensity", Range(v, PlusNum(v, 100)))>>,
                                          Advance(prev.rng, 1), nz))

\* _apply_frame_effects, installed only when a frame-level entry is present
ApplyFrameEffects(tp, rnd, nz) ==
    IF DOMAIN tp \cap FrameLevel = {}
    THEN NoOps(rnd)
    ELSE FrameLensFlare(tp, FrameSparkles(tp, FrameNoise(tp, NoOps(rnd), nz), nz), nz)

\* write_videofile, second part: one frame is computed and encoded to
\* output_path; when the frame callback or the encoder fails, the exception
\* leaves write_videofile past its own removal of the sidecar, and what the
\* encoder had written of output_path may stay
VWriteFrame ==
    /\ pc = "frames"
    /\ frame < NumFrames
    /\ LET output_path == VideoOutputPath(input.stem, i)
       IN  \E ok \in BOOLEAN, leftover \in BOOLEAN, nz \in 1..NpStates :
              LET fx == ApplyFrameEffects(transform_params, rng, nz)
              IN  /\ rng' = fx.rng
                  /\ IF fx.raised \/ ~ok
                     THEN /\ disk' = IF leftover
                                     THEN Without(disk, output_path)
                                              \cup {File(output_path, "video", FALSE)}
                                     ELSE Without(disk, output_path)
                          /\ CopyFails
                          /\ UNCHANGED <<frame, frames>>
                     ELSE /\ disk' = Without(disk, output_path)
                                         \cup {File(output_path, "video", FALSE)}
                          /\ frame' = frame + 1
                          /\ frames' = Append(frames, [ops |-> fx.ops, gates |-> fx.gates])
                          /\ UNCHANGED <<failed, i, pc>>
    /\ UNCHANGED <<preset, input, count, call, methods, output_paths, raisedBy, attempts,
                   first, sampled, photoVars, sideVars, transform_params, drawn,
                   stages>>

\* write_videofile, last part (remove_temp=True), clip.close() and
\* output_paths.append(output_path)
VFinishWrite ==
    /\ pc = "frames"
    /\ frame = NumFrames
    /\ LET output_path == VideoOutputPath(input.stem, i)
       IN  /\ disk' = Without(Without(disk, TempAudioPath(output_path)), output_path)
                          \cup {File(output_path, "video", TRUE)}
           /\ output_paths' = Append(output_paths, output_path)
    /\ i' = i + 1
    /\ pc' = "loop"
    /\ UNCHANGED <<preset, input, count, call, methods, rng, raisedBy, attempts, failed,
                   first, sampled, photoVars, sideVars, transform_params, drawn,
                   frame, frames, stages>>

\* The same request again on a new VideoUniquifier, in the same worker process
\* (the generator goes on from where it is) or in another one.
VSecondCall ==
    /\ pc = "done"
    /\ call = 1
    /\ call' = 2
    /\ first' = [output_paths |-> output_paths, files |-> files, drawn |-> drawn,
                 done |-> TRUE]
    /\ \E newProcess \in BOOLEAN, secret \in HashSecrets :
          /\ hashSecret' = IF newProcess THEN secret ELSE hashSecret
          /\ rng' = IF newProcess THEN ProcessRandom(secret) ELSE rng
    /\ pc' = "new"
    /\ methods' = <<>>
    /\ i' = 0
    /\ output_paths' = <<>>
    /\ attempts' = <<>>
    /\ failed' = {}
    /\ drawn' = <<>>
    /\ frame' = 0
    /\ frames' = <<>>
    /\ transform_params' = NoParams
    /\ stages' = <<>>
    /\ UNCHANGED <<preset, input, count, raisedBy, sampled, disk, j, image, files,
                   saveErrors, invoked, errored, seeds, npDraws, sideVars>>

NextVideo ==
    VConstruct \/ VStart \/ VBeginCopy \/ VOpen \/ VWriteAudio \/ VWriteFrame
        \/ VFinishWrite \/ Return

SpecVideo == InitVideo /\ [][NextVideo]_vars

SpecVideoFrames == InitVideoFrames /\ [][NextVideo]_vars

NextVideoPair == NextVideo \/ VSecondCall

InitVideoPair == InitVideoWith(VideoPairRequests)

SpecVideoPair == InitVideoPair /\ [][NextVideoPair]_vars

(* ------------------------- _apply_photo_overlay ------------------------ *)
\* pixels of the resized overlay and of the base image (one row, one band)
OvLen == 2
BaseLen == 3

\* (p, opacity) for which the double product p * (opacity / 100) lies just below
\* the integer p * opacity / 100, opacity in 0..100 and p in 0..255
RoundsBelow ==
    {<<100, 29>>, <<200, 29>>, <<180, 35>>, <<100, 57>>, <<200, 57>>, <<50, 58>>,
     <<100, 58>>, <<200, 58>>, <<90, 70>>, <<170, 70>>, <<180, 70>>, <<150, 82>>}

\* variant: the alpha band is left as it is
ScaleAlpha_Unscaled(p, opacity) == p

\* lambda p: int(p * (opacity / 100))
ScaleAlpha(p, opacity) ==
    (p * opacity) \div 100 - (IF <<p, opacity>> \in RoundsBelow THEN 1 ELSE 0)

\* one band of one pixel pasted through the mask value a, with the paste's
\* rounding division by 255
Blend(below, above, a) ==
    LET x == below * (255 - a) + above * a + 128
    IN  ((x \div 256) + x) \div 256

\* base_image.paste(overlay, (x, y), overlay) on a row: overlay pixel k lands
\* on base pixel x + k
Paste(base, overlay, alpha, x) ==
    [q \in 1..Len(base) |->
        IF q - x \in 1..Len(overlay)
        THEN Blend(base[q], overlay[q - x].c, alpha[q - x])
        ELSE base[q]]

InitOverlay ==
    /\ \E base \in [1..BaseLen -> {10, 200}],
          overlay \in [1..OvLen -> [c : {40, 250}, a : {0, 50, 255}]],
          opacity \in {0, 50, 58, 100}, x \in 0..(BaseLen - OvLen) :
          canvas = [done |-> FALSE, base |-> base, overlay |-> overlay,
                    opacity |-> opacity, x |-> x, alpha |-> <<>>, out |-> <<>>]
    /\ preset = [methods |-> <<>>, intensity |-> "medium", file_format |-> "jpeg",
                 flip_horizontal |-> FALSE, overlay_text |-> FALSE, overlay_photo |-> "ok"]
    /\ input \in {f \in Inputs : f.decodable}
    /\ count = 1
    /\ hashSecret = 0
    /\ call = 1
    /\ pc = "overlay"
    /\ methods = <<>>
    /\ i = 0
    /\ j = 0
    /\ image = NoImage
    /\ rng = NoRng
    /\ output_paths = <<>>
    /\ files = {}
    /\ raisedBy = "none"
    /\ attempts = <<>>
    /\ failed = {}
    /\ saveErrors = {}
    /\ invoked = <<>>
    /\ errored = {}
    /\ seeds = {}
    /\ first = NoFirst
    /\ sampled = [level \in Levels |-> NoSample]
    /\ transform_params = NoParams
    /\ disk = {}
    /\ drawn = <<>>
    /\ frame = 0
    /\ frames = <<>>
    /\ stages = <<>>
    /\ npDraws = 0
    /\ task = [pc |-> "none"]
    /\ db = [status |-> "none"]
    /\ inv = <<>>
    /\ touched = {}

\* the opacity adjustment, the paste and the conversion back to RGB
PasteOverlay ==
    /\ pc = "overlay"
    /\ ~canvas.done
    /\ LET alpha == [k \in 1..Len(canvas.overlay) |->
                        ScaleAlpha(canvas.overlay[k].a, canvas.opacity)]
       IN  canvas' = [canvas EXCEPT !.done = TRUE, !.alpha = alpha,
                                    !.out = Paste(canvas.base, canvas.overlay, alpha, canvas.x)]
    /\ UNCHANGED <<preset, input, count, call, pc, methods, i, rng, output_paths, raisedBy,
                   attempts, failed, first, sampled, photoVars, videoVars, task, db, inv,
                   touched>>

NextOverlay == PasteOverlay

SpecOverlay == InitOverlay /\ [][NextOverlay]_vars

(* ----------------------- concurrent invocations ------------------------ *)
MaxLogId == 3
ConcCopies == 2

\* variant: one directory per kind of job, whatever the action log
OutputDirFor_PerKind(kind, action_log_id) == [temp |-> "TEMP_DIR", prefix |-> kind, id |-> 0]

\* settings.TEMP_DIR / f"photo_{action_log_id}", settings.TEMP_DIR / f"video_{action_log_id}"
OutputDirFor(kind, action_log_id) == [temp |-> "TEMP_DIR", prefix |-> kind, id |-> action_log_id]

Under(dir, path) == [path EXCEPT !.dir = dir]

\* the file the running copy of an invocation writes
CopyPath(v) ==
    Under(OutputDirFor(v.kind, v.action_log_id),
          IF v.kind = "photo" THEN OutputPath(v.stem, v.i, ".jpg")
          ELSE VideoOutputPath(v.stem, v.i))

\* after a copy: the next one, or the end of the loop
AfterCopy(v) ==
    IF v.i + 1 < v.copies
    THEN [v EXCEPT !.i = v.i + 1, !.step = IF v.kind = "photo" THEN "save" ELSE "audio"]
    ELSE [v EXCEPT !.step = "done"]

InitConcurrent ==
    /\ \E ids \in {p \in (1..MaxLogId) \X (1..MaxLogId) : p[1] # p[2]},
          kinds \in {"photo", "video"} \X {"photo", "video"},
          stems \in {"photo", "clip"} \X {"photo", "clip"} :
          inv = [k \in 1..2 |->
                    [kind |-> kinds[k], action_log_id |-> ids[k], stem |-> stems[k],
                     copies |-> ConcCopies, i |-> 0, step |-> "mkdir"]]
    /\ touched = {}
    /\ canvas = [done |-> FALSE]
    /\ task = [pc |-> "none"]
    /\ db = [status |-> "none"]
    /\ preset = [methods |-> <<>>, intensity |-> "medium", file_format |-> "jpeg",
                 flip_horizontal |-> FALSE, overlay_text |-> FALSE, overlay_photo |-> "none"]
    /\ input \in {f \in Inputs : f.decodable}
    /\ count = ConcCopies
    /\ hashSecret = 0
    /\ call = 1
    /\ pc = "concurrent"
    /\ methods = <<>>
    /\ i = 0
    /\ j = 0
    /\ image = NoImage
    /\ rng = NoRng
    /\ output_paths = <<>>
    /\ files = {}
    /\ raisedBy = "none"
    /\ attempts = <<>>
    /\ failed = {}
    /\ saveErrors = {}
    /\ invoked = <<>>
    /\ errored = {}
    /\ seeds = {}
    /\ first = NoFirst
    /\ sampled = [level \in Levels |-> NoSample]
    /\ transform_params = NoParams
    /\ disk = {}
    /\ drawn = <<>>
    /\ frame = 0
    /\ frames = <<>>
    /\ stages = <<>>
    /\ npDraws = 0

\* the uniquifier variables, left alone by the steps around the uniquifier
UniquifierIdle ==
    UNCHANGED <<preset, input, count, call, pc, methods, i, rng, output_paths, raisedBy,
                attempts, failed, first, sampled, photoVars, videoVars>>

\* output_dir.mkdir(parents=True, exist_ok=True)
CMkdir(k) ==
    /\ pc = "concurrent"
    /\ inv[k].step = "mkdir"
    /\ touched' = touched \cup
          {[by |-> k, op |-> "write",
            path |-> [dir |-> OutputDirFor(inv[k].kind, inv[k].action_log_id), stem |-> "",
                      index |-> 0, ext |-> ""]]}
    /\ inv' = [inv EXCEPT ![k].step = IF inv[k].kind = "photo" THEN "save" ELSE "audio"]
    /\ UniquifierIdle /\ UNCHANGED <<canvas, task, db>>

\* image.save(output_path, ...) of a photo copy
CSave(k) ==
    /\ pc = "concurrent"
    /\ inv[k].step = "save"
    /\ touched' = touched \cup {[by |-> k, op |-> "write", path |-> CopyPath(inv[k])]}
    /\ inv' = [inv EXCEPT ![k] = AfterCopy(inv[k])]
    /\ UniquifierIdle /\ UNCHANGED <<canvas, task, db>>

\* write_videofile: the temporary audio file is written first
CAudio(k) ==
    /\ pc = "concurrent"
    /\ inv[k].step = "audio"
    /\ touched' = touched \cup {[by |-> k, op |-> "write", path |-> TempAudioPath(CopyPath(inv[k]))]}
    /\ inv' = [inv EXCEPT ![k].step = "encode"]
    /\ UniquifierIdle /\ UNCHANGED <<canvas, task, db>>

\* write_videofile: the frames are encoded into output_path; a failure ends the copy
CEncode(k) ==
    /\ pc = "concurrent"
    /\ inv[k].step = "encode"
    /\ touched' = touched \cup {[by |-> k, op |-> "write", path |-> CopyPath(inv[k])]}
    /\ \E ok \in BOOLEAN :
          inv' = [inv EXCEPT ![k] = IF ok THEN [inv[k] EXCEPT !.step = "remove"]
                                    ELSE AfterCopy(inv[k])]
    /\ UniquifierIdle /\ UNCHANGED <<canvas, task, db>>

\* write_videofile: remove_temp=True deletes the temporary audio file
CRemove(k) ==
    /\ pc = "concurrent"
    /\ inv[k].step = "remove"
    /\ touched' = touched \cup {[by |-> k, op |-> "delete", path |-> TempAudioPath(CopyPath(inv[k]))]}
    /\ inv' = [inv EXCEPT ![k] = AfterCopy(inv[k])]
    /\ UniquifierIdle /\ UNCHANGED <<canvas, task, db>>

NextConcurrent ==
    \E k \in 1..2 : CMkdir(k) \/ CSave(k) \/ CAudio(k) \/ CEncode(k) \/ CRemove(k)

SpecConcurrent == InitConcurrent /\ [][NextConcurrent]_vars

(* --------------------------- the Celery tasks -------------------------- *)
TaskCopies == 2

\* the parameters of uniquify_photo_task and of uniquify_video_task, self aside
TaskParams(kind) ==
    IF kind = "photo"
    THEN {"action_log_id", "input_file_path", "copies_count", "preset_id", "file_format",
          "flip_horizontal", "overlay_text", "overlay_photo_path", "overlay_position",
          "overlay_opacity"}
    ELSE {"action_log_id", "input_file_path", "copies_count", "preset_id"}

\* the keyword arguments process_photo_uniquification and
\* process_video_uniquification give to .delay()
HandlerKwargs(kind) ==
    IF kind = "photo"
    THEN {"action_log_id", "input_file_path", "copies_count", "preset_id", "intensity",
          "file_format", "flip_horizontal", "overlay_text", "overlay_photo_path",
          "overlay_position", "overlay_opacity"}
    ELSE {"action_log_id", "input_file_path", "copies_count", "preset_id"}

\* a call binds to the task's signature when it names no other parameter
Accepts(kind, kwargs) == kwargs \subseteq TaskParams(kind)

\* preset_config.get('intensity', 'low') on the stored preset's config, whose
\* 'intensity' key may be absent
ConfigIntensity(stored) == IF stored = "absent" THEN "low" ELSE stored

InitTask ==
    /\ \E kind \in {"photo", "video"}, via \in {"handler", "direct"}, chosen \in Levels,
          copies \in 1..TaskCopies, decodable \in BOOLEAN :
          task = [pc |-> "dispatch", kind |-> kind, via |-> via, chosen |-> chosen,
                  copies |-> copies, decodable |-> decodable, action_log |-> "unbound",
                  intensity |-> "none", multiplier |-> 0, returned |-> -1]
    /\ \E log \in BOOLEAN, hasPreset \in BOOLEAN, stored \in {"absent", "extreme"} \cup Levels :
          /\ task.via = "handler" => (log /\ hasPreset)
          /\ db = [log |-> log, status |-> IF log THEN "PENDING" ELSE "none",
                   result_count |-> -1, error_message |-> FALSE, preset |-> hasPreset,
                   intensity |-> stored]
    /\ canvas = [done |-> FALSE]
    /\ inv = <<>>
    /\ touched = {}
    /\ preset = [methods |-> <<>>, intensity |-> "medium", file_format |-> "jpeg",
                 flip_horizontal |-> FALSE, overlay_text |-> FALSE, overlay_photo |-> "none"]
    /\ input \in {f \in Inputs : f.decodable}
    /\ count = 1
    /\ hashSecret = 0
    /\ call = 1
    /\ pc = "task"
    /\ methods = <<>>
    /\ i = 0
    /\ j = 0
    /\ image = NoImage
    /\ rng = NoRng
    /\ output_paths = <<>>
    /\ files = {}
    /\ raisedBy = "none"
    /\ attempts = <<>>
    /\ failed = {}
    /\ saveErrors = {}
    /\ invoked = <<>>
    /\ errored = {}
    /\ seeds = {}
    /\ first = NoFirst
    /\ sampled = [level \in Levels |-> NoSample]
    /\ transform_params = NoParams
    /\ disk = {}
    /\ drawn = <<>>
    /\ frame = 0
    /\ frames = <<>>
    /\ stages = <<>>
    /\ npDraws = 0

\* .delay(**kwargs): a keyword the task does not have is a TypeError, raised to
\* the handler by the signature check of the call or in the worker before the
\* task body; the handler's except reports an error to the user
TDispatch ==
    /\ pc = "task" /\ task.pc = "dispatch"
    /\ LET kwargs == IF task.via = "handler" THEN HandlerKwargs(task.kind)
                     ELSE TaskParams(task.kind)
       IN  task' = [task EXCEPT !.pc = IF Accepts(task.kind, kwargs) THEN "start"
                                       ELSE "rejected"]
    /\ UNCHANGED db
    /\ UniquifierIdle /\ UNCHANGED <<canvas, inv, touched>>

\* action_log = db.query(ActionLog)...first(); when there is one, PROCESSING is
\* committed
TQueryLog ==
    /\ pc = "task" /\ task.pc = "start"
    /\ \E queryOK \in BOOLEAN, commitOK \in BOOLEAN :
          IF ~queryOK
          THEN task' = [task EXCEPT !.pc = "except"] /\ UNCHANGED db
          ELSE IF ~db.log
               THEN task' = [task EXCEPT !.pc = "preset", !.action_log = "none"]
                    /\ UNCHANGED db
               ELSE IF commitOK
                    THEN /\ task' = [task EXCEPT !.pc = "preset", !.action_log = "log"]
                         /\ db' = [db EXCEPT !.status = "PROCESSING"]
                    ELSE /\ task' = [task EXCEPT !.pc = "except", !.action_log = "log"]
                         /\ UNCHANGED db
    /\ UniquifierIdle /\ UNCHANGED <<canvas, inv, touched>>

\* the preset query, and ValueError when there is no such preset
TQueryPreset ==
    /\ pc = "task" /\ task.pc = "preset"
    /\ \E queryOK \in BOOLEAN :
          task' = [task EXCEPT !.pc = IF queryOK /\ db.preset THEN "construct" ELSE "except"]
    /\ UNCHANGED db
    /\ UniquifierIdle /\ UNCHANGED <<canvas, inv, touched>>

\* config = preset.config.copy() with the options of the call, and
\* PhotoUniquifier(config); VideoUniquifier(preset.config)
TConstruct ==
    /\ pc = "task" /\ task.pc = "construct"
    /\ task' = IF task.kind = "photo"
               THEN [task EXCEPT !.pc = "uniquify",
                                 !.intensity = ConfigIntensity(db.intensity),
                                 !.multiplier = Multiplier(ConfigIntensity(db.intensity))]
               ELSE [task EXCEPT !.pc = "uniquify"]
    /\ UNCHANGED db
    /\ UniquifierIdle /\ UNCHANGED <<canvas, inv, touched>>

\* uniquifier.uniquify(input_path, output_dir, copies_count): raises (mkdir, or
\* a photo that does not open) or returns the paths of the copies that worked
TUniquify ==
    /\ pc = "task" /\ task.pc = "uniquify"
    /\ \E mkdirOK \in BOOLEAN, n \in 0..task.copies :
          IF ~mkdirOK \/ (task.kind = "photo" /\ ~task.decodable)
          THEN task' = [task EXCEPT !.pc = "except"]
          ELSE task' = [task EXCEPT !.pc = "complete",
                                    !.returned = IF task.decodable THEN n ELSE 0]
    /\ UNCHANGED db
    /\ UniquifierIdle /\ UNCHANGED <<canvas, inv, touched>>

\* COMPLETED and result_count are committed when there is a log; return
TComplete ==
    /\ pc = "task" /\ task.pc = "complete"
    /\ \E commitOK \in BOOLEAN :
          IF task.action_log # "log"
          THEN task' = [task EXCEPT !.pc = "returned"] /\ UNCHANGED db
          ELSE IF commitOK
               THEN /\ db' = [db EXCEPT !.status = "COMPLETED", !.result_count = task.returned]
                    /\ task' = [task EXCEPT !.pc = "returned"]
               ELSE task' = [task EXCEPT !.pc = "except"] /\ UNCHANGED db
    /\ UniquifierIdle /\ UNCHANGED <<canvas, inv, touched>>

\* except Exception: `if action_log:` is an UnboundLocalError when the first
\* query raised; otherwise FAILED and the message are committed when there is a
\* log; raise; finally db.close()
TExcept ==
    /\ pc = "task" /\ task.pc = "except"
    /\ \E commitOK \in BOOLEAN :
          IF task.action_log = "log" /\ commitOK
          THEN db' = [db EXCEPT !.status = "FAILED", !.error_message = TRUE]
          ELSE UNCHANGED db
    /\ task' = [task EXCEPT !.pc = "raised"]
    /\ UniquifierIdle /\ UNCHANGED <<canvas, inv, touched>>

NextTask ==
    TDispatch \/ TQueryLog \/ TQueryPreset \/ TConstruct \/ TUniquify \/ TComplete \/ TExcept

SpecTask == InitTask /\ [][NextTask]_vars

TypeOK ==
    /\ pc \in {"new", "ready", "loop", "methods", "done", "raised", "open", "audio", "frames",
              "overlay", "concurrent", "task"}
    /\ i \in 0..count
    /\ call \in 1..2
    /\ Len(output_paths) <= count

(* ------------------------------ helpers -------------------------------- *)
\* the elements of S that lie in 1..k, in ascending order
RECURSIVE Ascending(_, _)
Ascending(S, k) ==
    IF k = 0 THEN <<>>
    ELSE IF k \in S THEN Append(Ascending(S, k - 1), k) ELSE Ascending(S, k - 1)

Elems(q) == {q[n] : n \in 1..Len(q)}
OpNames(img) == {img[n].name : n \in 1..Len(img)}
Abs(x) == IF x >= 0 THEN x ELSE -x

(* ------------------------------- claims -------------------------------- *)

\* C1: two independent uniquify calls on the same input with the same preset
\* and count write byte-identical files for every copy index.
C1_Determinism ==
    (call = 2 /\ pc = "done") =>
        \A f \in files, g \in first.files : f.path = g.path => f = g

\* C2: the seed of a copy is a function of (input name, copy index) alone:
\* every random.seed call for the same pair, in whichever process, uses the
\* same seed.
C2_SeedIsFunctionOfPair ==
    \A r1 \in seeds, r2 \in seeds :
        (r1.name = r2.name /\ r1.i = r2.i) => r1.seed = r2.seed

\* C3: valid input, count = 3, the only method is noise with the range [5,15]
\* at medium intensity, no flip, no overlay and no save fails: 3 paths are
\* returned and every saved image carries the noise effect.
C3_NoiseScenario ==
    ( /\ pc = "done"
      /\ input.decodable
      /\ count = 3
      /\ preset.methods = <<NoiseRange>>
      /\ preset.intensity = "medium"
      /\ ~preset.flip_horizontal
      /\ ~preset.overlay_text
      /\ preset.overlay_photo = "none"
      /\ saveErrors = {}
      /\ preset.file_format \in {"jpeg", "png", "webp"} )
    => ( /\ Len(output_paths) = 3
         /\ Cardinality(files) = 3
         /\ \A f \in files : "noise" \in OpNames(f.image) )

\* C4: while a copy's methods are applied, the methods called so far are
\* exactly the enabled registry methods before the current position, in
\* declared order, and the image is the start image followed by the output of
\* each called method that did not raise, in that same order.
C4_DeclaredOrder ==
    pc = "methods" =>
        LET called == {p \in 1..(j - 1) :
                          methods[p].enabled /\ methods[p].name \in RegistryNames}
            applied == Ascending(called \ errored, j - 1)
            start == IF preset.flip_horizontal THEN 1 ELSE 0
        IN  /\ invoked = Ascending(called, j - 1)
            /\ Len(image) = start + Len(applied)
            /\ \A n \in 1..Len(applied) : image[start + n].name = methods[applied[n]].name

C4_Witness ==
    /\ pc = "methods"
    /\ j = 3
    /\ Len(image) = 2
    /\ image[1].name = "sparkles"
    /\ image[2].name = "blur"

\* C5: when a method raises, the copy goes on to the next method with the
\* image unchanged; and a call whose preset has a method that always raises,
\* with nothing else failing, returns one saved path per requested copy and
\* does not raise.
C5_EffectFailureIsContained ==
    /\ [][(pc = "methods" /\ errored' # errored) =>
             (image' = image /\ pc' = "methods" /\ j' = j + 1 /\ i' = i /\ failed' = failed)]_vars
    /\ []( ( /\ pc = "done"
             /\ \E p \in 1..Len(preset.methods) : preset.methods[p] = NoiseRange
             /\ \A p \in 1..Len(preset.methods) : preset.methods[p] # NoiseBackwards
             /\ saveErrors = {} )
           => ( /\ raisedBy = "none"
                /\ failed = {}
                /\ Len(output_paths) = count ) )

C5_Witness ==
    /\ pc = "done"
    /\ count = 5
    /\ \E p \in 1..Len(preset.methods) : preset.methods[p] = NoiseRange
    /\ saveErrors = {}
    /\ Len(output_paths) = 5

\* C6: the indices 0..count-1 are attempted one after another in ascending
\* order, each once; an index whose body raised is skipped and the later ones
\* are still attempted; the returned list holds the paths of exactly the
\* indices that did not raise, in ascending order.
C6_SequentialCopies ==
    /\ \A n \in 1..Len(attempts) : attempts[n] = n - 1
    /\ failed \subseteq Elems(attempts)
    /\ pc = "methods" => Len(attempts) = i + 1
    /\ pc = "loop" => Len(attempts) = i
    /\ pc = "done" => Len(attempts) = count
    /\ pc \in {"loop", "done"} =>
          LET succeeded == Ascending({idx + 1 : idx \in (0..(i - 1)) \ failed}, i)
          IN  /\ Len(output_paths) = Len(succeeded)
              /\ \A n \in 1..Len(succeeded) : output_paths[n].index = succeeded[n]

C6_Witness ==
    /\ pc = "done"
    /\ \E a \in failed : \E b \in 0..(count - 1) : b > a /\ b \notin failed
    /\ Len(output_paths) >= 1

\* C7: uniquify raises exactly when the input cannot be opened and decoded,
\* and then no copy is attempted and no path returned.
C7_RaisesIffUndecodable ==
    /\ pc = "raised" => ~input.decodable
    /\ (~input.decodable /\ pc \notin {"new", "ready"}) =>
          (pc = "raised" /\ attempts = <<>> /\ output_paths = <<>>)

\* C8: every returned path names a file this call saved, whatever the
\* file_format.
C8_ReturnedPathsWereSaved ==
    \A n \in 1..Len(output_paths) : \E f \in files : f.path = output_paths[n]

\* C9: the path of copy i is output_dir/<stem>_unique_<i><ext> with i in
\* 1..count; for jpeg, png and webp the extension and the encoder are
\* .jpg/JPEG, .png/PNG and .webp/WEBP; the paths of one call are pairwise
\* distinct.
C9_OutputNaming ==
    LET fmt == preset.file_format
        ext == IF fmt = "jpeg" THEN ".jpg" ELSE IF fmt = "png" THEN ".png" ELSE ".webp"
        enc == IF fmt = "jpeg" THEN "JPEG" ELSE IF fmt = "png" THEN "PNG" ELSE "WEBP"
    IN  /\ \A n \in 1..Len(output_paths) :
              /\ output_paths[n].dir = "output_dir"
              /\ output_paths[n].stem = input.stem
              /\ output_paths[n].index \in 1..count
              /\ fmt \in {"jpeg", "png", "webp"} => output_paths[n].ext = ext
        /\ \A f \in files :
              fmt \in {"jpeg", "png", "webp"} => (f.path.ext = ext /\ f.enc = enc)
        /\ pc \in {"loop", "done"} =>
              {output_paths[n].index : n \in 1..Len(output_paths)}
                 = {idx + 1 : idx \in (0..(i - 1)) \ failed}
        /\ \A m, n \in 1..Len(output_paths) : m # n => output_paths[m] # output_paths[n]

C9_Witness ==
    /\ pc = "done"
    /\ preset.file_format = "png"
    /\ Len(output_paths) >= 2
    /\ Cardinality(files) >= 2

\* C10: the scaled list has the length and order of the preset's list, name
\* and enabled are unchanged, brightness, contrast, hue and blur are unchanged
\* in every field, and every endpoint of every other spec is the product of
\* the original and 0.5 / 1.0 / 1.3 (for an integer: within the 0.5 that
\* keeping it an integer may cost).
C10_Factor == IF preset.intensity = "low" THEN 5 ELSE IF preset.intensity = "medium" THEN 10 ELSE 13

C10_IsProduct(scaled, orig) ==
    /\ scaled.t = orig.t
    /\ IF orig.t = "int"
       THEN 2 * Abs(scaled.v * 10 - orig.v * C10_Factor) <= 10000
       ELSE scaled.v * 10 = orig.v * C10_Factor

C10_IntensityScaling ==
    pc # "new" =>
        /\ Len(methods) = Len(preset.methods)
        /\ \A idx \in 1..Len(methods) :
              /\ methods[idx].name = preset.methods[idx].name
              /\ methods[idx].enabled = preset.methods[idx].enabled
              /\ Len(methods[idx].params) = Len(preset.methods[idx].params)
              /\ methods[idx].name \in {"brightness", "contrast", "hue", "blur"}
                    => methods[idx] = preset.methods[idx]
              /\ methods[idx].name \notin {"brightness", "contrast", "hue", "blur"}
                    => \A p \in 1..Len(methods[idx].params) :
                          /\ methods[idx].params[p].key = preset.methods[idx].params[p].key
                          /\ methods[idx].params[p].val.k = preset.methods[idx].params[p].val.k
                          /\ C10_IsProduct(methods[idx].params[p].val.a,
                                           preset.methods[idx].params[p].val.a)
                          /\ C10_IsProduct(methods[idx].params[p].val.b,
                                           preset.methods[idx].params[p].val.b)

\* C11: an integer endpoint v of a scaled effect becomes the integer nearest to
\* v * factor (0.5 under low, 1.0 under medium, 1.3 under high), for positive and
\* for negative v, and a float endpoint stays a float
C11_Tenths(level) == IF level = "low" THEN 5 ELSE IF level = "medium" THEN 10 ELSE 13

C11_Nearest(scaled, orig, level) ==
    /\ scaled.t = orig.t
    /\ orig.t = "int" =>
          /\ scaled.v % 1000 = 0
          /\ Abs(scaled.v * 10 - orig.v * C11_Tenths(level)) <= 5000

C11_IntegersAreRounded ==
    \A level \in Levels :
       sampled[level].done /\ preset.methods[1].name \notin {"brightness", "contrast", "hue", "blur"} =>
          \A p \in 1..Len(preset.methods[1].params) :
             /\ C11_Nearest(sampled[level].methods[1].params[p].val.a,
                            preset.methods[1].params[p].val.a, level)
             /\ C11_Nearest(sampled[level].methods[1].params[p].val.b,
                            preset.methods[1].params[p].val.b, level)

\* C12: for a fixed seed and a noise effect with one base integer range, the
\* amplitude _prepare_parameters samples from the scaled range under high is at
\* least the one under medium, which is at least the one under low
C12_Amplitude(level) == sampled[level].result.params[1].val.a.v

C12_IntensityMonotone ==
    LET base == preset.methods[1].params[1]
    IN  (/\ \A level \in Levels : sampled[level].done /\ ~sampled[level].result.raised
         /\ preset.methods[1].name = "noise"
         /\ base.key = "intensity" /\ base.val.k = "r" /\ IsIntRange(base.val)
         /\ 0 <= base.val.a.v /\ base.val.a.v <= base.val.b.v)
        => /\ C12_Amplitude("high") >= C12_Amplitude("medium")
           /\ C12_Amplitude("medium") >= C12_Amplitude("low")

\* C13: for a method config whose ranges [min, max] have min <= max,
\* _prepare_parameters returns a map over exactly the config's keys other than
\* name and enabled; every range is replaced by one value v, min <= v <= max,
\* an integer when both endpoints are integers (each endpoint is drawn for some
\* seed) and a float otherwise; every scalar is returned unchanged
C13_WellFormed(cfg) ==
    \A p \in 1..Len(cfg.params) :
       cfg.params[p].val.k = "r" => cfg.params[p].val.a.v <= cfg.params[p].val.b.v

C13_Sampled(given, got) ==
    IF given.k = "s"
    THEN got = given
    ELSE /\ got.k = "s"
         /\ got.a = got.b
         /\ given.a.v <= got.a.v /\ got.a.v <= given.b.v
         /\ got.a.t = IF given.a.t = "int" /\ given.b.t = "int" THEN "int" ELSE "float"
         /\ got.a.t = "int" => got.a.v % 1000 = 0

C13_Drawn(cfg, p, s) == PrepareParameters(cfg, [seed |-> s, n |-> 0]).params[p].val.a.v

C13_SamplerContract ==
    \A level \in Levels :
       LET cfg == sampled[level].methods[1]
           res == sampled[level].result
       IN  sampled[level].done /\ C13_WellFormed(cfg) =>
              /\ ~res.raised
              /\ Len(res.params) = Len(cfg.params)
              /\ \A p \in 1..Len(cfg.params) :
                    /\ res.params[p].key = cfg.params[p].key
                    /\ C13_Sampled(cfg.params[p].val, res.params[p].val)
                    /\ (cfg.params[p].val.k = "r" /\ cfg.params[p].val.a.t = "int"
                            /\ cfg.params[p].val.b.t = "int") =>
                          /\ \E s \in SamplerSeeds : C13_Drawn(cfg, p, s) = cfg.params[p].val.a.v
                          /\ \E s \in SamplerSeeds : C13_Drawn(cfg, p, s) = cfg.params[p].val.b.v

\* an integer range, a float range and a scalar have been sampled
C13_Witness ==
    \E level \in Levels :
       LET cfg == sampled[level].methods[1]
           res == sampled[level].result
       IN  /\ sampled[level].done /\ ~res.raised /\ Len(res.params) = 3
           /\ cfg.params[1].val.k = "r" /\ cfg.params[1].val.a.t = "int"
           /\ cfg.params[1].val.a.v < cfg.params[1].val.b.v
           /\ res.params[1].val.a.t = "int"
           /\ cfg.params[1].val.a.v < res.params[1].val.a.v
           /\ cfg.params[2].val.k = "r" /\ res.params[2].val.a.t = "float"
           /\ cfg.params[3].val.k = "s" /\ res.params[3].val = cfg.params[3].val

\* C14: a range given with min > max is not fatal: the effect that carries it is
\* skipped, and the copy is still produced and its path returned (a copy can
\* only fail on saving)
C14_Malformed(m) ==
    \E p \in 1..Len(m.params) :
       m.params[p].val.k = "r" /\ m.params[p].val.a.v > m.params[p].val.b.v

C14_MalformedRangeIsSkipped ==
    (\E n \in 1..Len(methods) :
        methods[n].enabled /\ methods[n].name \in RegistryNames /\ C14_Malformed(methods[n]))
    => /\ failed \subseteq saveErrors
       /\ (pc = "done" /\ saveErrors = {}) => Len(output_paths) = count

\* C15: an enabled effect spec whose name is not in METHOD_REGISTRY is passed
\* over without a draw from the random source: the step changes nothing but the
\* position in the list, so the remaining effects run as if the spec were absent
C15_UnknownNameIsSkipped ==
    [][(pc = "methods" /\ j <= Len(methods) /\ methods[j].enabled
            /\ methods[j].name \notin RegistryNames)
       => (/\ rng' = rng /\ image' = image /\ j' = j + 1 /\ pc' = pc /\ i' = i
           /\ invoked' = invoked /\ errored' = errored /\ failed' = failed
           /\ output_paths' = output_paths /\ files' = files)]_vars

\* the unknown spec was passed over and the effect after it was applied, with
\* the draws of that effect only
C15_Witness ==
    /\ pc = "methods" /\ j = 3 /\ Len(methods) = 2
    /\ methods[1].name = "glow" /\ methods[1].enabled /\ Len(methods[1].params) > 0
    /\ methods[2].name = "blur"
    /\ invoked = <<2>> /\ errored = {}
    /\ Len(image) = 1 /\ image[1].name = "blur"
    /\ rng.n = 1

\* C16: when the requested overlay image cannot be loaded, every copy that needs
\* it is skipped: no path is returned and no copy is saved without the overlay,
\* while the loop still goes through every index
C16_UnloadableOverlaySkipsCopy ==
    preset.overlay_photo = "unloadable" =>
       /\ output_paths = <<>>
       /\ \A f \in files : "overlay" \in OpNames(f.image)
       /\ pc = "done" => Len(attempts) = count

\* C17: the temp audio sidecar of a video copy no longer exists when the copy's
\* processing has ended, whether the write completed or failed
C17_TempAudioIsRemoved ==
    pc \in {"loop", "done"} => \A f \in disk : f.kind # "temp_audio"

\* C18: a failed video copy leaves no file at its output path, its path is not
\* returned, and the indices after it are still attempted
C18_FailedVideoCopyLeavesNothing ==
    /\ \A idx \in failed :
          /\ \A f \in disk : f.path # VideoOutputPath(input.stem, idx)
          /\ \A n \in 1..Len(output_paths) : output_paths[n] # VideoOutputPath(input.stem, idx)
    /\ pc = "done" => attempts = [n \in 1..count |-> n - 1]

\* C19: the random source of a video copy is seeded from the input and the copy
\* index, so the second of two equal calls samples, for each copy index, the
\* parameters the first call sampled
C19_VideoSamplingRepeats ==
    call = 2 =>
       \A n \in 1..Len(drawn), m \in 1..Len(first.drawn) :
          drawn[n].i = first.drawn[m].i => drawn[n].params = first.drawn[m].params

\* C20: for an input that cannot be decoded VideoUniquifier.uniquify raises
\* instead of returning a list
C20_UndecodableVideoRaises ==
    (~input.decodable /\ pc \in {"done", "raised"}) => pc = "raised"

\* C21: identity law. With every effect disabled, no flip and no text or image
\* overlay, the image handed to the encoder for each copy is the decoded input
\* with nothing applied to it, and count paths are returned (a copy can only be
\* lost to an I/O error of the save)
C21_NothingRequested ==
    /\ \A n \in 1..Len(preset.methods) : ~preset.methods[n].enabled
    /\ ~preset.flip_horizontal /\ ~preset.overlay_text /\ preset.overlay_photo = "none"

C21_IdentityLaw ==
    (C21_NothingRequested /\ pc \in {"loop", "methods", "done"}) =>
        /\ \A f \in files : f.image = <<>>
        /\ pc = "methods" => image = <<>>
        /\ failed \subseteq saveErrors
        /\ (pc = "done" /\ saveErrors = {}) =>
              /\ Len(output_paths) = count
              /\ EncoderFor(preset.file_format) # "none" => Cardinality(files) = count

\* two copies of a preset with one disabled effect were saved untouched
C21_Witness ==
    /\ C21_NothingRequested /\ Len(preset.methods) = 1
    /\ pc = "done" /\ count = 2 /\ Len(output_paths) = 2
    /\ Cardinality(files) = 2 /\ \A f \in files : f.image = <<>>

\* C22 as stated: the overlay's alpha p becomes the integer part of
\* p * opacity / 100; with opacity 0 every alpha is 0 and the result is the base
\* image; with opacity 100 every alpha is unchanged and a fully opaque overlay
\* pixel replaces the base pixel under it
C22_Endpoints ==
    /\ canvas.opacity = 0 =>
          /\ \A k \in 1..Len(canvas.alpha) : canvas.alpha[k] = 0
          /\ canvas.out = canvas.base
    /\ canvas.opacity = 100 =>
          \A k \in 1..Len(canvas.alpha) :
             /\ canvas.alpha[k] = canvas.overlay[k].a
             /\ canvas.overlay[k].a = 255 => canvas.out[canvas.x + k] = canvas.overlay[k].c

C22_AlphaIsExactQuotient ==
    (pc = "overlay" /\ canvas.done) =>
        /\ \A k \in 1..Len(canvas.alpha) :
              canvas.alpha[k] = (canvas.overlay[k].a * canvas.opacity) \div 100
        /\ C22_Endpoints

\* C22 amended: the alpha becomes int(p * (opacity / 100)) in double precision,
\* which is the integer part of p * opacity / 100 or one less than it, and
\* exactly that integer part at opacity 0 and 100; the two endpoint cases are
\* as stated
C22_AlphaScaling ==
    (pc = "overlay" /\ canvas.done) =>
        /\ \A k \in 1..Len(canvas.alpha) :
              LET exact == (canvas.overlay[k].a * canvas.opacity) \div 100
              IN  /\ canvas.alpha[k] \in {exact - 1, exact}
                  /\ canvas.alpha[k] >= 0
                  /\ canvas.opacity \in {0, 100} => canvas.alpha[k] = exact
        /\ C22_Endpoints

\* an overlay with an opaque and a half-transparent pixel was pasted at full opacity
C22_Witness ==
    /\ pc = "overlay" /\ canvas.done /\ canvas.opacity = 100
    /\ canvas.overlay[1].a = 255 /\ canvas.overlay[2].a = 50
    /\ canvas.out[canvas.x + 1] = canvas.overlay[1].c
    /\ canvas.out[canvas.x + 1] # canvas.base[canvas.x + 1]
    /\ canvas.out[canvas.x + 2] # canvas.base[canvas.x + 2]

\* C23: two concurrent invocations for different action logs never write or
\* delete the same output file or temporary sidecar path
C23_DisjointOutputs ==
    pc = "concurrent" =>
        \A a \in touched, b \in touched : a.by # b.by => a.path # b.path

\* two video jobs for inputs of the same name both finished, each having
\* written outputs and written and deleted a sidecar
C23_Witness ==
    /\ pc = "concurrent"
    /\ inv[1].kind = "video" /\ inv[2].kind = "video" /\ inv[1].stem = inv[2].stem
    /\ inv[1].step = "done" /\ inv[2].step = "done"
    /\ \A k \in 1..2 : \E a \in touched, b \in touched :
          /\ a.by = k /\ a.op = "delete"
          /\ b.by = k /\ b.op = "write" /\ b.path.index = ConcCopies /\ b.path.ext = ".mp4"

\* C24 helpers: the place of a stage in the fixed order, and the names of the
\* enabled method configs
C24_Rank(stage) ==
    CASE stage = "speed" -> 1 [] stage = "brightness" -> 2 [] stage = "contrast" -> 3
      [] stage = "saturation" -> 4 [] stage = "hue" -> 5 [] OTHER -> 6
C24_Enabled == {methods[n].name : n \in {m \in 1..Len(methods) : methods[m].enabled}}

C26_Has(fr, name) == \E n \in 1..Len(fr.ops) : fr.ops[n].name = name
C26_Passed(fr, name, tenths) ==
    /\ Cardinality({n \in 1..Len(fr.gates) : fr.gates[n].name = name}) = 1
    /\ \E n \in 1..Len(fr.gates) :
          fr.gates[n].name = name /\ 10 * fr.gates[n].draw < tenths * RandMod
C26_Place(name) ==
    CASE name = "noise" -> 1 [] name = "sparkles" -> 2 [] name = "lens_flare" -> 3 [] OTHER -> 0

\* C26: on every frame noise is applied when enabled, whatever the gates draw;
\* sparkles and lens flare are applied exactly when enabled and that frame's
\* own draw is below 0.3 and 0.1; the order is noise, sparkles, lens flare
C26_FrameGates ==
    \A f \in 1..Len(frames) :
        LET fr == frames[f]
        IN  /\ C26_Has(fr, "noise") <=> "noise" \in DOMAIN transform_params
            /\ C26_Has(fr, "sparkles") <=>
                  ("sparkles" \in DOMAIN transform_params /\ C26_Passed(fr, "sparkles", 3))
            /\ C26_Has(fr, "lens_flare") <=>
                  ("lens_flare" \in DOMAIN transform_params /\ C26_Passed(fr, "lens_flare", 1))
            /\ \A a \in 1..Len(fr.ops), b \in 1..Len(fr.ops) :
                  a < b => C26_Place(fr.ops[a].name) < C26_Place(fr.ops[b].name)

\* noise and sparkles enabled: one frame got noise then sparkles, the other
\* frame's draw failed and it got noise alone
C26_Witness ==
    /\ pc = "frames" /\ Len(frames) >= 2
    /\ {"noise", "sparkles"} \subseteq DOMAIN transform_params
    /\ \E f \in 1..Len(frames), g \in 1..Len(frames) :
          /\ Len(frames[f].ops) = 2 /\ frames[f].ops[1].name = "noise"
          /\ frames[f].ops[2].name = "sparkles"
          /\ Len(frames[g].ops) = 1 /\ frames[g].ops[1].name = "noise"
          /\ ~C26_Passed(frames[g], "sparkles", 3)

\* C25 helper: the stage an operation on the image belongs to
C25_Stage(op) ==
    CASE op.name = "flip" -> 1 [] op.name = "text" -> 3 [] op.name = "overlay" -> 4 [] OTHER -> 2
C25_Count(img, stage) == Cardinality({n \in 1..Len(img) : C25_Stage(img[n]) = stage})

\* C25: each copy goes through seed, copy of the original, flip, enabled
\* effects, text overlay, image overlay, save, in that order: while the effects
\* run the generator is the one seeded for the copy and no overlay is on the
\* image, and in a saved image nothing follows an overlay but the later overlay
C25_FixedPhotoOrder ==
    /\ pc = "methods" =>
          /\ rng.seed = SeedFor(hashSecret, input.name, i)
          /\ \E sd \in seeds : sd.i = i /\ sd.seed = rng.seed
          /\ \A n \in 1..Len(image) : C25_Stage(image[n]) \in {1, 2}
          /\ \A n \in 1..Len(image) : C25_Stage(image[n]) = 1 <=> (n = 1 /\ preset.flip_horizontal)
    /\ \A f \in files :
          /\ \A a \in 1..Len(f.image), b \in 1..Len(f.image) :
                a < b => C25_Stage(f.image[a]) <= C25_Stage(f.image[b])
          /\ C25_Count(f.image, 1) = (IF preset.flip_horizontal THEN 1 ELSE 0)
          /\ C25_Count(f.image, 3) = (IF preset.overlay_text THEN 1 ELSE 0)
          /\ C25_Count(f.image, 4) = (IF preset.overlay_photo = "ok" THEN 1 ELSE 0)

\* a saved copy that was flipped, got an effect, then the text, then the overlay
C25_Witness ==
    /\ pc = "done"
    /\ \E f \in files :
          /\ Len(f.image) = 4
          /\ f.image[1] = FlipOp /\ C25_Stage(f.image[2]) = 2
          /\ f.image[3] = TextOp /\ f.image[4] = OverlayOp

\* C27: the copies of one call are independent: when a copy starts, the image
\* is the (flipped) original, the `random` generator is freshly seeded for the
\* copy, and no random source carries a position reached in an earlier copy
C27_CopiesIndependent ==
    (call = 1 /\ pc = "methods" /\ j = 1) =>
        /\ image = StartImage(preset.flip_horizontal)
        /\ rng = [seed |-> SeedFor(hashSecret, input.name, i), n |-> 0]
        /\ npDraws = 0

\* C28 helpers: the upper end (in thousandths) of the range the preset
\* configures for a parameter of an enabled method, and the values an applied
\* frame effect used (noise amplitude; sparkle count and size; flare intensity)
C28_Max(name, key) ==
    LET ms == {n \in 1..Len(methods) : methods[n].enabled /\ methods[n].name = name}
        last == CHOOSE n \in ms : \A m \in ms : m <= n
    IN  Arg(methods[last].params, key, Scalar(I(0))).b.v
C28_Within(op) ==
    CASE op.name = "noise" -> 1000 * op.draws[1] <= C28_Max("noise", "intensity")
      [] op.name = "sparkles" ->
            /\ 1000 * op.draws[1] <= C28_Max("sparkles", "count")
            /\ Len(op.draws) >= 4 => 1000 * op.draws[4] <= C28_Max("sparkles", "size")
      [] op.name = "lens_flare" -> op.draws[5] <= C28_Max("lens_flare", "intensity")
      [] OTHER -> TRUE

\* C28: the noise amplitude, sparkle count, sparkle size and flare intensity
\* used on any frame never exceed the maximum of the range configured for that
\* parameter in the preset
C28_WithinConfiguredRange ==
    \A f \in 1..Len(frames) : \A n \in 1..Len(frames[f].ops) : C28_Within(frames[f].ops[n])

\* C29: a photo request dispatched by process_photo_uniquification reaches
\* PhotoUniquifier with the chosen intensity in its configuration, and the
\* multiplier applied is 0.5, 1.0 or 1.3
C29_ChosenIntensityApplied ==
    (pc = "task" /\ task.kind = "photo") =>
        /\ task.via = "handler" => task.pc # "rejected"
        /\ task.multiplier # 0 =>
              /\ task.multiplier \in {5, 10, 13}
              /\ task.via = "handler" => task.intensity = task.chosen

\* C30: when a task has finished for an existing action log, by returning or
\* by raising, the log is COMPLETED or FAILED; COMPLETED exactly when uniquify
\* returned, with result_count the number of returned paths; FAILED, with an
\* error message, when a step raised
C30_LogReachesFinalStatus ==
    (pc = "task" /\ db.log /\ task.pc \in {"returned", "raised"}) =>
        /\ db.status \in {"COMPLETED", "FAILED"}
        /\ db.status = "COMPLETED" <=> task.pc = "returned"
        /\ task.pc = "returned" => (task.returned >= 0 /\ db.result_count = task.returned)
        /\ task.pc = "raised" => db.error_message

====
